---- MODULE Spec2Model ----
(***************************************************************************)
(* Model of the multi-worker orchestrator (src/multiworker): one turn fans *)
(* the conversation out to N_WORKERS retried remote calls, joins on all of *)
(* them, runs one retried synthesis call and merges the token telemetry.   *)
(*                                                                         *)
(* Conventions.  An Optional[...] value of the source is a sequence of     *)
(* length 0 (None) or 1 (the value).  A text is a sequence of characters.  *)
(* Durations and timestamps are integers; delays are in tenths of a second *)
(* (the retry hints of the service carry decimals).                        *)
(***************************************************************************)
EXTENDS Integers, Sequences, FiniteSets, TLC

\* ------------------------------------------------------------------ bounds
MaxWorkers  == 3
MaxRetryMax == 2
MaxTime     == 1
MaxTurns    == 2
MaxTokens   == 2

\* ----------------------------------------------------------------- options
None == <<>>

Some(x) == <<x>>

IsNone(o) == Len(o) = 0

Get(o) == o[1]

Max2(a, b) == IF b > a THEN b ELSE a

\* ------------------------------------------------------------------- texts
Space == " "

EmptyText == <<>>

RECURSIVE LStrip(_)
LStrip(t) == IF Len(t) > 0 /\ Head(t) = Space THEN LStrip(Tail(t)) ELSE t

RECURSIVE RStrip(_)
RStrip(t) ==
  IF Len(t) > 0 /\ t[Len(t)] = Space THEN RStrip(SubSeq(t, 1, Len(t) - 1)) ELSE t

\* str.strip()
Strip(t) == RStrip(LStrip(t))

RECURSIVE Join(_)
\* "".join(chunks)
Join(chunks) == IF Len(chunks) = 0 THEN EmptyText ELSE Head(chunks) \o Join(Tail(chunks))

\* str.lower() on the phrases that occur in failure messages
Lower(s) ==
  CASE s = "Try Again In" -> "try again in"
    [] s = "Retry-After"  -> "retry-after"
    [] OTHER              -> s

\* ------------------------------------------------ responses of the service
\* A response: output_text (Optional text), output (the content blocks of its
\* output items, in order), repr (what str(resp) gives) and usage.
OutputTextChunks(resp) ==
  LET blocks == SelectSeq(resp.output, LAMBDA b : b.type = "output_text")
  IN  [k \in 1..Len(blocks) |-> blocks[k].text]

\* _extract_output_text
ExtractOutputText(resp) ==
  LET txt    == resp.output_text
      chunks == OutputTextChunks(resp)
  IN  IF ~IsNone(txt) /\ Strip(Get(txt)) # EmptyText THEN Strip(Get(txt))
      ELSE IF Len(chunks) > 0 THEN Strip(Join(chunks))
      ELSE resp.repr

UsageFields == {"input_tokens", "output_tokens", "total_tokens"}

ZeroTokens == [input |-> 0, output |-> 0, total |-> 0]

\* `getattr(usage, f, None) or usage.get(f, 0)`: an attribute-style usage object
\* has no get(), so a field that is missing or zero raises there.
UsageFieldRaises(usage, f) ==
  usage.style = "attr" /\ (IsNone(usage[f]) \/ Get(usage[f]) = 0)

UsageField(usage, f) == IF IsNone(usage[f]) THEN 0 ELSE Get(usage[f])

\* _extract_usage
ExtractUsage(resp) ==
  LET usage == resp.usage
  IN  IF usage.style = "none" THEN ZeroTokens
      ELSE IF \E f \in UsageFields : UsageFieldRaises(usage, f) THEN ZeroTokens
      ELSE LET input_t  == UsageField(usage, "input_tokens")
               output_t == UsageField(usage, "output_tokens")
               total_t  == UsageField(usage, "total_tokens")
           IN  [input  |-> input_t,
                output |-> output_t,
                total  |-> IF total_t = 0 THEN input_t + output_t ELSE total_t]

\* --------------------------------------------------- failures of the service
\* A failure: response (Optional headers) and message, the text of str(e) as
\* [phrase, secs (Optional, tenths of a second), unit].  A header value is
\* [kind, val] with kind absent | empty | text | num.
AbsentHeader == [kind |-> "absent", val |-> 0]

Truthy(h) == h.kind \in {"text", "num"}

\* headers.get(key): header names are case-insensitive
HeadersGet(headers, key) == headers[Lower(key)]

\* `resp.headers.get("retry-after") or resp.headers.get("Retry-After")`
RetryAfter(e) ==
  IF IsNone(e.response) THEN AbsentHeader
  ELSE LET lower == HeadersGet(Get(e.response), "retry-after")
       IN  IF Truthy(lower) THEN lower ELSE HeadersGet(Get(e.response), "Retry-After")

\* A search that is case-sensitive
TextHintMatchesExact(msg) ==
  msg.phrase = "try again in" /\ ~IsNone(msg.secs) /\ msg.unit = "s"

\* re.search(r"try again in\s+([0-9]+(?:\.[0-9]+)?)s", msg, re.IGNORECASE)
TextHintMatches(msg) ==
  Lower(msg.phrase) = "try again in" /\ ~IsNone(msg.secs) /\ msg.unit = "s"

\* A rounding down where the code rounds up
Floor(x) == (x \div 10) * 10

\* math.ceil, on tenths of a second
Ceil(x) == ((x + 9) \div 10) * 10

\* The largest base delay the settings allow, and the smallest (tenths of a
\* second)
DelayCeiling == 600

DelayFloor == 10

\* A delay that is clamped to the bounds of the configured base delay
ComputeDelayClamped(base, e) ==
  LET ra == RetryAfter(e)
      d1 == IF Truthy(ra) /\ ra.kind = "num" THEN Max2(base, ra.val) ELSE base
      d2 == IF TextHintMatches(e.message) THEN Max2(d1, Ceil(Get(e.message.secs))) ELSE d1
  IN  IF d2 > DelayCeiling THEN DelayCeiling ELSE IF d2 < DelayFloor THEN DelayFloor ELSE d2

\* A delay with no fallback: a retry-after value that is not a number, or a
\* message without the seconds, gives no delay at all
ComputeDelayStrict(base, e) ==
  LET ra == RetryAfter(e)
      d1 == IF Truthy(ra) /\ ra.kind = "num" THEN Max2(base, ra.val)
            ELSE IF Truthy(ra) THEN 0 ELSE base
  IN  IF TextHintMatches(e.message) THEN Max2(d1, Ceil(Get(e.message.secs)))
      ELSE IF Lower(e.message.phrase) = "try again in" THEN 0 ELSE d1

\* The delay computed in the except block of _request_with_retries
ComputeDelay(base, e) ==
  LET ra == RetryAfter(e)
      d1 == IF Truthy(ra) /\ ra.kind = "num" THEN Max2(base, ra.val) ELSE base
  IN  IF TextHintMatches(e.message) THEN Max2(d1, Ceil(Get(e.message.secs))) ELSE d1

\* A retry after the last allowed attempt too
ShouldRetryInclusive(attempt, retry_max) == attempt <= retry_max

\* A retry budget that is one attempt short
ShouldRetryShort(attempt, retry_max) == attempt + 1 < retry_max

\* `if attempt < config.RETRY_MAX`
ShouldRetry(attempt, retry_max) == attempt < retry_max

\* ------------------------------------------------------ what the service says
UsageFull == [style |-> "attr", input_tokens |-> Some(3), output_tokens |-> Some(2),
              total_tokens |-> Some(5)]

UsageNoTotal == [style |-> "dict", input_tokens |-> Some(1), output_tokens |-> Some(1),
                 total_tokens |-> None]

UsageAbsent == [style |-> "none", input_tokens |-> None, output_tokens |-> None,
                total_tokens |-> None]

RespPadded == [output_text |-> Some(<<" ", "B", " ">>), output |-> <<>>,
               repr |-> <<"r">>, usage |-> UsageFull]

RespChunks == [output_text |-> None,
               output |-> <<[type |-> "reasoning", text |-> <<"x">>],
                            [type |-> "output_text", text |-> <<"C">>],
                            [type |-> "output_text", text |-> <<"D", " ">>]>>,
               repr |-> <<"r">>, usage |-> UsageNoTotal]

RespBlank == [output_text |-> Some(<<" ">>),
              output |-> <<[type |-> "output_text", text |-> <<" ">>]>>,
              repr |-> <<"r">>, usage |-> UsageNoTotal]

RespOpaque == [output_text |-> None, output |-> <<>>,
               repr |-> <<" ", "r">>, usage |-> UsageAbsent]

NoMessageHint == [phrase |-> "server error", secs |-> None, unit |-> ""]

Header(kind, val) == [kind |-> kind, val |-> val]

Headers(h) == [f \in {"retry-after"} |-> h]

Failure(response, phrase, secs, unit) ==
  [response |-> response, message |-> [phrase |-> phrase, secs |-> secs, unit |-> unit]]

FailPlain == [response |-> None, message |-> NoMessageHint]

\* The failures of a run that exercises the retry hints
HintFailures ==
  { FailPlain,
    Failure(Some(Headers(AbsentHeader)), "try again in", None, "s"),
    Failure(Some(Headers(Header("text", 0))), "server error", None, ""),
    Failure(Some(Headers(Header("num", 35))), "server error", None, ""),
    Failure(Some(Headers(Header("num", 700))), "rate limit", None, ""),
    Failure(Some(Headers(Header("text", 0))), "try again in", Some(124), "s"),
    Failure(Some(Headers(Header("empty", 0))), "Try Again In", Some(20), "s"),
    Failure(Some(Headers(Header("num", 0 - 10))), "try again in", Some(500), "ms"),
    Failure(Some(Headers(Header("num", 90))), "try again in", Some(900), "s") }

\* The service of a turn with several workers: few answers for a worker,
\* every kind of answer for the synthesis, one kind of failure.
TurnService ==
  [worker_responses |-> {RespPadded, RespOpaque},
   synth_responses  |-> {RespPadded, RespChunks, RespBlank, RespOpaque},
   failures         |-> {FailPlain},
   stalled          |-> {}]

\* The service of a run about the retry delays
HintService ==
  [worker_responses |-> {RespPadded},
   synth_responses  |-> {RespChunks},
   failures         |-> HintFailures,
   stalled          |-> {}]

\* A token count of a usage object: missing, or 0..MaxTokens
TokenCounts == {None} \cup {Some(n) : n \in 0..MaxTokens}

\* The usage objects of a response: none, or attribute-style or dict-like with
\* any of the three counts
UsageInputs ==
  {UsageAbsent}
    \cup {[style |-> st, input_tokens |-> i, output_tokens |-> o, total_tokens |-> t] :
            st \in {"attr", "dict"}, i \in TokenCounts, o \in TokenCounts,
            t \in TokenCounts}

\* The service of a turn whose responses all carry the usage object u
UsageService(u) ==
  [worker_responses |-> {[RespPadded EXCEPT !.usage = u]},
   synth_responses  |-> {[RespPadded EXCEPT !.usage = u]},
   failures         |-> {FailPlain},
   stalled          |-> {}]

\* The service of a turn in which the attempts in S, pairs <<task, attempt>>,
\* never resolve
StallService(S) ==
  [worker_responses |-> {RespPadded},
   synth_responses  |-> {RespPadded},
   failures         |-> {FailPlain},
   stalled          |-> S]

\* ------------------------------------------------------------------- state
VARIABLES
  N_WORKERS, WORKER_NAMES, RETRY_MAX, RETRY_DELAY_SEC, LOG_ALL_TO_FILE,
  RUNNING_TOKENS,                       \* config globals
  RETRY_COUNT, RETRY_EVENTS, RETRY_DELAYS, \* retry telemetry globals
  history,                              \* the caller's conversation
  pc, turn_start, tokens_base, tokens_turn, states, synth_state, live,
  result,                               \* run_turn's frame and return value
  task,                                 \* the worker tasks 1..N and the synth task 0
  synth_input,                          \* call_synth's input list
  now,                                  \* time.time()
  user_inputs,                          \* the messages the user will still send
  service,                              \* what the remote service answers in this run
  turn, calls, sleeps, cause, answer, remote, synth_calls, trace  \* history of the run

configVars == <<N_WORKERS, WORKER_NAMES, RETRY_MAX, RETRY_DELAY_SEC, LOG_ALL_TO_FILE>>

retryVars == <<RETRY_COUNT, RETRY_EVENTS, RETRY_DELAYS>>

frameVars == <<pc, turn_start, tokens_base, tokens_turn, states, synth_state, live, result>>

vars == <<configVars, RUNNING_TOKENS, retryVars, history, frameVars, task, synth_input,
          now, user_inputs, service, turn, calls, sleeps, cause, answer, remote,
          synth_calls, trace>>

Workers == 1..N_WORKERS

SynthTask == 0

Tasks == {SynthTask} \cup Workers

\* f"Worker-{i+1}" for the i-th worker of the source (0-based there)
WorkerName(i) == <<"Worker", i>>

SynthName == <<"Synthesizer", 0>>

\* AgentState(name=..., model=...) at time t
AgentState(name, t) ==
  [name |-> name, started_at |-> t, ended_at |-> None, ok |-> "None",
   error |-> None, output_text |-> None, tokens |-> None]

NoTask == [pc |-> "absent", attempt |-> 0, any_retry_this_call |-> FALSE, delay |-> 0]

\* An accumulation that keeps the last usage only
TokenOverwrite(a, b) == b

\* tokens_turn[f] += usage[f], for the three fields
TokenSum(a, b) ==
  [input |-> a.input + b.input, output |-> a.output + b.output, total |-> a.total + b.total]

\* ---------------------------------------------------------------- settings
\* A value of settings.json or a line typed in the menu: [kind, val] with
\* kind absent (no such key) | text (not a number) | int | float (val in
\* tenths) | nan | inf | ninf.  A float of the program is [kind, val] with
\* kind fin (val in tenths) | nan | inf | ninf.
Value(kind, val) == [kind |-> kind, val |-> val]

Fin(x) == [kind |-> "fin", val |-> x]

\* int(v), with cur for a missing key: [ok, val]; ok is FALSE when it raises
IntOf(v, cur) ==
  CASE v.kind = "absent" -> [ok |-> TRUE, val |-> cur]
    [] v.kind = "int"    -> [ok |-> TRUE, val |-> v.val]
    [] v.kind = "float"  -> [ok |-> TRUE,
                             val |-> IF v.val >= 0 THEN v.val \div 10
                                     ELSE 0 - ((0 - v.val) \div 10)]
    [] OTHER             -> [ok |-> FALSE, val |-> 0]

\* float(v), with cur (tenths) for a missing key: [ok, val]
FloatOf(v, cur) ==
  CASE v.kind = "absent" -> [ok |-> TRUE, val |-> Fin(cur)]
    [] v.kind = "int"    -> [ok |-> TRUE, val |-> Fin(10 * v.val)]
    [] v.kind = "float"  -> [ok |-> TRUE, val |-> Fin(v.val)]
    [] v.kind = "text"   -> [ok |-> FALSE, val |-> Fin(0)]
    [] OTHER             -> [ok |-> TRUE, val |-> [kind |-> v.kind, val |-> 0]]

\* x < y on floats: every comparison with nan is false
Less(x, y) ==
  CASE x.kind = "nan" \/ y.kind = "nan" -> FALSE
    [] x.kind = "ninf" -> y.kind # "ninf"
    [] x.kind = "inf"  -> FALSE
    [] y.kind = "inf"  -> TRUE
    [] y.kind = "ninf" -> FALSE
    [] OTHER           -> x.val < y.val

\* min(a, b) and max(a, b) of Python: the first argument unless the second is
\* smaller (larger)
PyMin(a, b) == IF Less(b, a) THEN b ELSE a

PyMax(a, b) == IF Less(a, b) THEN b ELSE a

\* A bound that is not applied
NoClampInt(lo, hi, n) == n

\* max(lo, min(hi, n)) on integers
ClampInt(lo, hi, n) == Max2(lo, IF n < hi THEN n ELSE hi)

\* What is stored for a delay: its tenths of a second when it is finite
Stored(x) == IF x.kind = "fin" THEN x.val ELSE x

\* _validate_settings, for the keys the orchestrator reads; cur holds the
\* current globals
ValidateSettings(data, cur) ==
  LET n      == IntOf(data.N_WORKERS, cur.N_WORKERS)
      rmax   == IntOf(data.RETRY_MAX, cur.RETRY_MAX)
      rdelay == FloatOf(data.RETRY_DELAY_SEC, cur.RETRY_DELAY_SEC)
  IN  [LOG_ALL_TO_FILE |-> IF data.LOG_ALL_TO_FILE = None THEN cur.LOG_ALL_TO_FILE
                           ELSE Get(data.LOG_ALL_TO_FILE),
       N_WORKERS       |-> IF n.ok THEN ClampInt(1, 8, n.val) ELSE cur.N_WORKERS,
       RETRY_MAX       |-> IF rmax.ok THEN ClampInt(1, 10, rmax.val) ELSE cur.RETRY_MAX,
       RETRY_DELAY_SEC |-> IF rdelay.ok
                           THEN Stored(PyMax(Fin(10), PyMin(Fin(600), rdelay.val)))
                           ELSE cur.RETRY_DELAY_SEC]

\* Role names that stay those of the default worker count
WorkerNamesOfDefault(n) == [i \in 1..4 |-> WorkerName(i)]

\* [f"Worker-{i+1}" for i in range(N_WORKERS)]
WorkerNames(n) == [i \in 1..n |-> WorkerName(i)]

\* settings_menu: `1 <= new_n <= 8`
InMenuRange(n) == 1 <= n /\ n <= 8

\* The numbers tried as settings: below, inside and above every range
SettingNumbers == {0, 3, 11, 61}

\* The values tried for a key of settings.json
SettingValues ==
  {Value("absent", 0), Value("text", 0), Value("nan", 0), Value("inf", 0), Value("ninf", 0),
   Value("float", 0 - 5), Value("float", 605)}
    \cup {Value("int", n) : n \in SettingNumbers}

\* The lines tried in the menu: a line that int() rejects, or an integer
MenuLines == {Value("text", 0)} \cup {Value("int", n) : n \in SettingNumbers}

\* ------------------------------------------------- pieces of the handlers
\* A success without the finally: no end time
WorkerSucceededNoEnd(sts, i, text, usage, t) ==
  [sts EXCEPT ![i] = [@ EXCEPT !.output_text = Some(text), !.ok = "True",
                                !.tokens = Some(usage)]]

\* A success that stamps the end time of every worker
WorkerSucceededStampsAll(sts, i, text, usage, t) ==
  [j \in DOMAIN sts |->
     IF j = i
     THEN [sts[j] EXCEPT !.output_text = Some(text), !.ok = "True",
                         !.tokens = Some(usage), !.ended_at = Some(t)]
     ELSE [sts[j] EXCEPT !.ended_at = Some(t)]]

\* _run_worker, the try body after call_worker returned, and the finally
WorkerSucceeded(sts, i, text, usage, t) ==
  [sts EXCEPT ![i] = [@ EXCEPT !.output_text = Some(text), !.ok = "True",
                                !.tokens = Some(usage), !.ended_at = Some(t)]]

\* A failure that aborts every worker still pending
WorkerFailedAbortsAll(sts, i, e, t) ==
  [j \in DOMAIN sts |->
     IF j = i \/ sts[j].ok = "None"
     THEN [sts[j] EXCEPT !.ok = "False", !.error = Some(e.message), !.ended_at = Some(t)]
     ELSE sts[j]]

\* A failure without the finally: no end time
WorkerFailedNoEnd(sts, i, e, t) ==
  [sts EXCEPT ![i] = [@ EXCEPT !.ok = "False", !.error = Some(e.message)]]

\* _run_worker, the except body and the finally
WorkerFailed(sts, i, e, t) ==
  [sts EXCEPT ![i] = [@ EXCEPT !.ok = "False", !.error = Some(e.message),
                                !.ended_at = Some(t)]]

\* A succeeded synthesis that drops the text
SynthSucceededDropsText(st, final, t) ==
  [st EXCEPT !.ok = "True", !.output_text = Some(EmptyText), !.ended_at = Some(t)]

\* _do_synth, the try body after call_synth returned, and the finally
SynthSucceeded(st, final, t) ==
  [st EXCEPT !.ok = "True", !.output_text = Some(final), !.ended_at = Some(t)]

\* A failed synthesis that records no error detail
SynthFailedNoDetail(st, e, t) ==
  [st EXCEPT !.ok = "False", !.output_text = Some(EmptyText), !.ended_at = Some(t)]

\* A failed synthesis that leaves the output as it was
SynthFailedNoOutput(st, e, t) ==
  [st EXCEPT !.ok = "False", !.error = Some(e.message), !.ended_at = Some(t)]

\* _do_synth, the except body and the finally
SynthFailed(st, e, t) ==
  [st EXCEPT !.ok = "False", !.error = Some(e.message),
             !.output_text = Some(EmptyText), !.ended_at = Some(t)]

\* A loop condition that looks at the first worker only
FirstPending(sts) == sts[1].ok = "None"

\* A loop that ends as soon as one worker is terminal
AllPending(sts) == \A i \in DOMAIN sts : sts[i].ok = "None"

\* A loop that waits until every worker has succeeded
AnyNotSucceeded(sts) == \E i \in DOMAIN sts : sts[i].ok # "True"

\* `any(st.ok is None for st in states)`
AnyPending(sts) == \E i \in DOMAIN sts : sts[i].ok = "None"

\* A test that the task has started, not that it is done
TaskStarted(tk) == tk.pc \in {"inflight", "sleeping", "done"}

\* synth_task.done()
TaskDone(tk) == tk.pc = "done"

\* `st.output_text or ""`
TextOrEmpty(o) == IF IsNone(o) THEN EmptyText ELSE Get(o)

\* d[k] = v on a dict, kept as its entries in insertion order
DictSet(d, k, v) ==
  IF \E j \in 1..Len(d) : d[j].name = k
  THEN [j \in 1..Len(d) |-> IF d[j].name = k THEN [name |-> k, text |-> v] ELSE d[j]]
  ELSE Append(d, [name |-> k, text |-> v])

RECURSIVE DraftsOfFirst(_, _)
DraftsOfFirst(sts, k) ==
  IF k = 0 THEN <<>>
  ELSE DictSet(DraftsOfFirst(sts, k - 1), sts[k].name, TextOrEmpty(sts[k].output_text))

RECURSIVE SucceededDraftsOfFirst(_, _)
SucceededDraftsOfFirst(sts, k) ==
  IF k = 0 THEN <<>>
  ELSE IF sts[k].ok = "True"
       THEN DictSet(SucceededDraftsOfFirst(sts, k - 1), sts[k].name,
                    TextOrEmpty(sts[k].output_text))
       ELSE SucceededDraftsOfFirst(sts, k - 1)

\* A drafts map of the succeeded workers only
DraftsOfSucceeded(sts) == SucceededDraftsOfFirst(sts, Len(sts))

\* drafts_map = {st.name: (st.output_text or "") for st in states}
DraftsMap(sts) == DraftsOfFirst(sts, Len(sts))

\* call_synth: the entries "### {name}\n{text.strip()}" of stitched
Stitched(drafts) ==
  [k \in 1..Len(drafts) |-> [name |-> drafts[k].name, text |-> Strip(drafts[k].text)]]

\* call_synth: synth_input = history + [the drafts message]
SynthInput(hist, drafts) ==
  hist \o <<[role |-> "assistant", content |-> Stitched(drafts)]>>

\* A call_synth that appends the drafts message to the caller's list
HistoryExtended(hist, drafts) == SynthInput(hist, drafts)

\* call_synth: the caller's list after `history + [...]`, which builds a new
\* list and leaves its left operand as it was
HistoryAfterCallSynth(hist, drafts) == hist

\* `return synth_state.output_text or ""`
ReturnValue(st) == TextOrEmpty(st.output_text)

\* A trace failure that is not swallowed
AfterTraceRaises(written) == IF written THEN "returned" ELSE "raised"

\* run_turn's `except Exception: pass` around the trace: where the turn ends
\* once the trace was written (TRUE) or failed to be (FALSE)
AfterTrace(written) == "returned"

\* get_retry_stats(reset=False), what it returns
RetryStats(count, events, delays) ==
  [retries_total |-> count, retry_events |-> events, delays |-> delays]

\* A read of the retry telemetry that clears it whatever the flag
RetryGlobalsCleared(reset, globals) == <<0, 0, <<>>>>

\* A read of the retry telemetry that never clears it
RetryGlobalsKept(reset, globals) == globals

\* get_retry_stats(reset): the telemetry globals <<count, events, delays>>
\* it leaves behind
RetryGlobalsAfter(reset, globals) == IF reset THEN <<0, 0, <<>>>> ELSE globals

\* A live display that drops the update
LiveUpdateDropped(shown, renderable) == shown

\* live.update(renderable): what the live display shows afterwards
LiveUpdate(shown, renderable) == renderable

\* Running totals that count the turn twice
MergeTwice(running, turn_tokens) == TokenSum(TokenSum(running, turn_tokens), turn_tokens)

\* config.RUNNING_TOKENS[f] += tokens_turn.get(f, 0), for the three fields
MergeRunning(running, turn_tokens) == TokenSum(running, turn_tokens)

\* _compute_stats (the counts; synth is the Optional synthesizer state and
\* rstats what get_retry_stats returned)
ComputeStats(sts, synth, rstats, turn_tokens, base_tokens) ==
  LET done == Cardinality({i \in DOMAIN sts : sts[i].ok = "True"})
      err  == Cardinality({i \in DOMAIN sts : sts[i].ok = "False"})
  IN  [workers_total    |-> Len(sts),
       workers_done     |-> done,
       workers_err      |-> err,
       workers_run      |-> Len(sts) - done - err,
       retries_total    |-> rstats.retries_total,
       retry_events     |-> rstats.retry_events,
       tokens_total     |-> turn_tokens.total,
       tokens_run_total |-> base_tokens.total + turn_tokens.total]

\* render_dashboard(states, synth, stats): the synthesizer's row when it is
\* shown, and the worker and retry counts of the footer
Dashboard(sts, synth, stats) ==
  [synth         |-> IF IsNone(synth) THEN None ELSE Some(Get(synth).ok),
   workers_done  |-> stats.workers_done,
   workers_err   |-> stats.workers_err,
   workers_run   |-> stats.workers_run,
   retries_total |-> stats.retries_total]

\* --------------------------------------------------------------- initial
InitCommon ==
  /\ WORKER_NAMES = [i \in 1..N_WORKERS |-> WorkerName(i)]
  /\ RUNNING_TOKENS = ZeroTokens
  /\ RETRY_COUNT = 0 /\ RETRY_EVENTS = 0 /\ RETRY_DELAYS = <<>>
  /\ history = <<[role |-> "user", content |-> <<"q">>]>>
  /\ pc = "idle" /\ turn_start = 0
  /\ tokens_base = ZeroTokens /\ tokens_turn = ZeroTokens
  /\ states = <<>> /\ synth_state = AgentState(SynthName, 0)
  /\ live = None /\ result = None
  /\ task = [t \in Tasks |-> NoTask]
  /\ synth_input = <<>>
  /\ now = 0 /\ turn = 0
  /\ calls = [t \in Tasks |-> 0]
  /\ sleeps = [t \in Tasks |-> 0]
  /\ cause = [t \in Tasks |-> None]
  /\ answer = [t \in Tasks |-> None]
  /\ remote = [t \in Tasks |-> "none"]
  /\ synth_calls = 0 /\ trace = "off"

\* One turn of up to MaxWorkers workers, with the trace log on
Init ==
  /\ N_WORKERS \in 1..MaxWorkers
  /\ RETRY_MAX \in 1..MaxRetryMax
  /\ RETRY_DELAY_SEC = 50
  /\ LOG_ALL_TO_FILE = TRUE
  /\ user_inputs = 1
  /\ service = TurnService
  /\ InitCommon

\* One turn of one worker, with a service whose failures carry retry hints,
\* and the trace log off
InitRetry ==
  /\ N_WORKERS = 1
  /\ RETRY_MAX \in 1..MaxRetryMax
  /\ RETRY_DELAY_SEC \in {10, 50}
  /\ LOG_ALL_TO_FILE = FALSE
  /\ user_inputs = 1
  /\ service = HintService
  /\ InitCommon

\* Up to MaxTurns turns of one worker, one after another, while the clock runs
InitTurns ==
  /\ N_WORKERS = 1
  /\ RETRY_MAX \in 1..MaxRetryMax
  /\ RETRY_DELAY_SEC = 50
  /\ LOG_ALL_TO_FILE = FALSE
  /\ user_inputs \in 1..MaxTurns
  /\ service = TurnService
  /\ InitCommon

\* One turn of two workers with up to MaxRetryMax + 1 attempts a call, in
\* which every attempt resolves or one attempt of one worker never does
InitStall ==
  /\ N_WORKERS = 2
  /\ RETRY_MAX \in 1..(MaxRetryMax + 1)
  /\ RETRY_DELAY_SEC = 50
  /\ LOG_ALL_TO_FILE = FALSE
  /\ user_inputs = 1
  /\ service \in {StallService({})}
                 \cup {StallService({<<i, a>>}) : i \in 1..2, a \in 1..RETRY_MAX}
  /\ InitCommon

\* One turn of one worker, with responses that carry one of the usage objects
InitUsage ==
  /\ N_WORKERS = 1
  /\ RETRY_MAX = 2
  /\ RETRY_DELAY_SEC = 50
  /\ LOG_ALL_TO_FILE = FALSE
  /\ user_inputs = 1
  /\ service \in {UsageService(u) : u \in UsageInputs}
  /\ InitCommon

\* The program after import with no settings.json, and one turn asked for
InitSettingsTurn ==
  /\ N_WORKERS = 4
  /\ RETRY_MAX = 5
  /\ RETRY_DELAY_SEC = 50
  /\ LOG_ALL_TO_FILE = FALSE
  /\ user_inputs = 1
  /\ service = TurnService
  /\ InitCommon

\* The program after import with no settings.json: the defaults of config.py,
\* and no turn asked for
InitSettings ==
  /\ N_WORKERS = 4
  /\ RETRY_MAX = 5
  /\ RETRY_DELAY_SEC = 50
  /\ LOG_ALL_TO_FILE = FALSE
  /\ user_inputs = 0
  /\ service = TurnService
  /\ InitCommon

\* --------------------------------------------------------------- run_turn
Created == [pc |-> "created", attempt |-> 0, any_retry_this_call |-> FALSE, delay |-> 0]

\* live.update(render_dashboard(states, synth, _compute_stats(...)))
Forward(sts, synth, rstats, turn_tokens, base_tokens) ==
  Some(Dashboard(sts, synth, ComputeStats(sts, synth, rstats, turn_tokens, base_tokens)))

CurrentRetryStats == RetryStats(RETRY_COUNT, RETRY_EVENTS, RETRY_DELAYS)

\* A call of get_retry_stats(reset), as its effect on the telemetry globals
GetRetryStats(reset) ==
  LET after == RetryGlobalsAfter(reset, <<RETRY_COUNT, RETRY_EVENTS, RETRY_DELAYS>>)
  IN  /\ RETRY_COUNT' = after[1]
      /\ RETRY_EVENTS' = after[2]
      /\ RETRY_DELAYS' = after[3]

\* run_turn up to its first await: the telemetry reset, the frame, the tasks
\* and the first dashboard
StartTurn ==
  /\ pc \in {"idle", "returned"}
  /\ user_inputs > 0
  /\ user_inputs' = user_inputs - 1
  /\ turn' = turn + 1
  /\ GetRetryStats(TRUE)
  /\ turn_start' = now
  /\ tokens_base' = RUNNING_TOKENS
  /\ tokens_turn' = ZeroTokens
  /\ states' = [i \in 1..N_WORKERS |-> AgentState(WORKER_NAMES[i], now)]
  /\ synth_state' = AgentState(SynthName, now)
  /\ task' = [t \in Tasks |-> IF t = SynthTask THEN NoTask ELSE Created]
  /\ live' = Forward(states', None, RetryStats(0, 0, <<>>), ZeroTokens, RUNNING_TOKENS)
  /\ result' = None
  /\ synth_input' = <<>>
  /\ calls' = [t \in Tasks |-> 0]
  /\ sleeps' = [t \in Tasks |-> 0]
  /\ cause' = [t \in Tasks |-> None]
  /\ answer' = [t \in Tasks |-> None]
  /\ remote' = [t \in Tasks |-> "none"]
  /\ synth_calls' = 0
  /\ trace' = "off"
  /\ pc' = "poll_workers"
  /\ UNCHANGED <<configVars, RUNNING_TOKENS, history, now, service>>

\* _request_with_retries: coro_factory() is called for the next attempt
Invoke(t) ==
  /\ task' = [task EXCEPT ![t] = [@ EXCEPT !.pc = "inflight", !.attempt = @ + 1]]
  /\ calls' = [calls EXCEPT ![t] = @ + 1]

\* A backoff that counts a retry event for every retry
BackoffCountsEvery(t, e) ==
  LET delay == ComputeDelay(RETRY_DELAY_SEC, e)
  IN  /\ RETRY_EVENTS' = RETRY_EVENTS + 1
      /\ RETRY_COUNT' = RETRY_COUNT + 1
      /\ RETRY_DELAYS' = Append(RETRY_DELAYS, delay)
      /\ task' = [task EXCEPT ![t] = [@ EXCEPT !.pc = "sleeping",
                                              !.any_retry_this_call = TRUE,
                                              !.delay = delay]]
      /\ sleeps' = [sleeps EXCEPT ![t] = @ + 1]
      /\ cause' = [cause EXCEPT ![t] = Some(e)]

\* A backoff whose increment of the retry counter is lost while another task
\* is in its own backoff
BackoffLost(t, e) ==
  LET delay == ComputeDelay(RETRY_DELAY_SEC, e)
  IN  /\ RETRY_EVENTS' = IF task[t].any_retry_this_call THEN RETRY_EVENTS
                         ELSE RETRY_EVENTS + 1
      /\ RETRY_COUNT' = IF \E u \in Tasks \ {t} : task[u].pc = "sleeping"
                        THEN RETRY_COUNT ELSE RETRY_COUNT + 1
      /\ RETRY_DELAYS' = Append(RETRY_DELAYS, delay)
      /\ task' = [task EXCEPT ![t] = [@ EXCEPT !.pc = "sleeping",
                                              !.any_retry_this_call = TRUE,
                                              !.delay = delay]]
      /\ sleeps' = [sleeps EXCEPT ![t] = @ + 1]
      /\ cause' = [cause EXCEPT ![t] = Some(e)]

\* _request_with_retries: the except block when a retry follows
Backoff(t, e) ==
  LET delay == ComputeDelay(RETRY_DELAY_SEC, e)
  IN  /\ RETRY_EVENTS' = IF task[t].any_retry_this_call THEN RETRY_EVENTS
                         ELSE RETRY_EVENTS + 1
      /\ RETRY_COUNT' = RETRY_COUNT + 1
      /\ RETRY_DELAYS' = Append(RETRY_DELAYS, delay)
      /\ task' = [task EXCEPT ![t] = [@ EXCEPT !.pc = "sleeping",
                                              !.any_retry_this_call = TRUE,
                                              !.delay = delay]]
      /\ sleeps' = [sleeps EXCEPT ![t] = @ + 1]
      /\ cause' = [cause EXCEPT ![t] = Some(e)]

\* The remote call that task t is waiting for comes back, with a response or
\* with a failure
Resolves(t) == <<t, task[t].attempt>> \notin service.stalled

\* A worker task's first step: _run_worker calls call_worker, which starts
\* attempt 1
WorkerBegin(i) ==
  /\ task[i].pc = "created"
  /\ Invoke(i)
  /\ UNCHANGED <<configVars, RUNNING_TOKENS, retryVars, history, frameVars, synth_input,
                 now, user_inputs, service, turn, cause, remote, synth_calls, trace, sleeps, answer>>

\* The remote call of worker i returns a response
WorkerCallSucceeds(i) ==
  /\ task[i].pc = "inflight"
  /\ Resolves(i)
  /\ \E resp \in service.worker_responses :
       LET text  == ExtractOutputText(resp)
           usage == ExtractUsage(resp)
       IN  /\ states' = WorkerSucceeded(states, i, text, usage, now)
           /\ tokens_turn' = TokenSum(tokens_turn, usage)
           /\ answer' = [answer EXCEPT ![i] = Some(resp)]
  /\ task' = [task EXCEPT ![i] = [@ EXCEPT !.pc = "done"]]
  /\ remote' = [remote EXCEPT ![i] = "ok"]
  /\ UNCHANGED <<configVars, RUNNING_TOKENS, retryVars, history, pc, turn_start, tokens_base,
                 synth_state, live, result, synth_input, now, user_inputs, service, turn, calls,
                 cause, synth_calls, trace, sleeps>>

\* The remote call of worker i raises: a backoff, or the failure of the worker
WorkerCallFails(i) ==
  /\ task[i].pc = "inflight"
  /\ Resolves(i)
  /\ \E e \in service.failures :
       IF ShouldRetry(task[i].attempt, RETRY_MAX)
       THEN /\ Backoff(i, e)
            /\ UNCHANGED <<states, remote>>
       ELSE /\ states' = WorkerFailed(states, i, e, now)
            /\ task' = [task EXCEPT ![i] = [@ EXCEPT !.pc = "done"]]
            /\ cause' = [cause EXCEPT ![i] = Some(e)]
            /\ remote' = [remote EXCEPT ![i] = "fail"]
            /\ UNCHANGED <<retryVars, sleeps>>
  /\ UNCHANGED <<configVars, RUNNING_TOKENS, history, pc, turn_start, tokens_base,
                 tokens_turn, synth_state, live, result, synth_input, now, user_inputs, service, turn,
                 calls, synth_calls, trace, answer>>

\* asyncio.sleep(delay) of a retried call is over: the next attempt starts
Wake(t) ==
  /\ task[t].pc = "sleeping"
  /\ Invoke(t)
  /\ UNCHANGED <<configVars, RUNNING_TOKENS, retryVars, history, frameVars, synth_input,
                 now, user_inputs, service, turn, cause, remote, synth_calls, trace, sleeps, answer>>

\* The coordinator's loop while a worker is pending: sleep, then live.update
PollWorkers ==
  /\ pc = "poll_workers"
  /\ AnyPending(states)
  /\ live' = LiveUpdate(live, Forward(states, None, CurrentRetryStats, tokens_turn,
                                      tokens_base))
  /\ GetRetryStats(FALSE)
  /\ UNCHANGED <<configVars, RUNNING_TOKENS, history, pc, turn_start, tokens_base,
                 tokens_turn, states, synth_state, result, task, synth_input, now,
                 user_inputs, service, turn, calls, cause, remote, synth_calls, trace, sleeps, answer>>

\* The loop ends: gather, the synthesizer's start time, its dashboard row and
\* the synth task
JoinWorkers ==
  /\ pc = "poll_workers"
  /\ ~AnyPending(states)
  /\ synth_state' = [synth_state EXCEPT !.started_at = now]
  /\ live' = LiveUpdate(live, Forward(states, Some([synth_state EXCEPT !.started_at = now]),
                                      CurrentRetryStats, tokens_turn, tokens_base))
  /\ GetRetryStats(FALSE)
  /\ task' = [task EXCEPT ![SynthTask] = Created]
  /\ pc' = "poll_synth"
  /\ UNCHANGED <<configVars, RUNNING_TOKENS, history, turn_start, tokens_base,
                 tokens_turn, states, result, synth_input, now, user_inputs, service, turn, calls,
                 cause, remote, synth_calls, trace, sleeps, answer>>

\* The synth task's first step: _do_synth builds drafts_map and calls
\* call_synth, which builds synth_input and starts attempt 1
SynthBegin ==
  /\ task[SynthTask].pc = "created"
  /\ synth_input' = SynthInput(history, DraftsMap(states))
  /\ history' = HistoryAfterCallSynth(history, DraftsMap(states))
  /\ synth_calls' = synth_calls + 1
  /\ Invoke(SynthTask)
  /\ UNCHANGED <<configVars, RUNNING_TOKENS, retryVars, frameVars, now, user_inputs, service,
                 turn, cause, remote, trace, sleeps, answer>>

\* The remote call of the synthesis returns a response
SynthCallSucceeds ==
  /\ task[SynthTask].pc = "inflight"
  /\ Resolves(SynthTask)
  /\ \E resp \in service.synth_responses :
       /\ synth_state' = SynthSucceeded(synth_state, ExtractOutputText(resp), now)
       /\ tokens_turn' = TokenSum(tokens_turn, ExtractUsage(resp))
       /\ answer' = [answer EXCEPT ![SynthTask] = Some(resp)]
  /\ task' = [task EXCEPT ![SynthTask] = [@ EXCEPT !.pc = "done"]]
  /\ remote' = [remote EXCEPT ![SynthTask] = "ok"]
  /\ UNCHANGED <<configVars, RUNNING_TOKENS, retryVars, history, pc, turn_start, tokens_base,
                 states, live, result, synth_input, now, user_inputs, service, turn, calls, cause,
                 synth_calls, trace, sleeps>>

\* The remote call of the synthesis raises: a backoff, or the failure of the
\* synthesis
SynthCallFails ==
  /\ task[SynthTask].pc = "inflight"
  /\ Resolves(SynthTask)
  /\ \E e \in service.failures :
       IF ShouldRetry(task[SynthTask].attempt, RETRY_MAX)
       THEN /\ Backoff(SynthTask, e)
            /\ UNCHANGED <<synth_state, remote>>
       ELSE /\ synth_state' = SynthFailed(synth_state, e, now)
            /\ task' = [task EXCEPT ![SynthTask] = [@ EXCEPT !.pc = "done"]]
            /\ cause' = [cause EXCEPT ![SynthTask] = Some(e)]
            /\ remote' = [remote EXCEPT ![SynthTask] = "fail"]
            /\ UNCHANGED <<retryVars, sleeps>>
  /\ UNCHANGED <<configVars, RUNNING_TOKENS, history, pc, turn_start, tokens_base,
                 tokens_turn, states, live, result, synth_input, now, user_inputs, service, turn,
                 calls, synth_calls, trace, answer>>

\* The coordinator's loop while the synth task runs: sleep, then live.update
PollSynth ==
  /\ pc = "poll_synth"
  /\ ~TaskDone(task[SynthTask])
  /\ live' = LiveUpdate(live, Forward(states, Some(synth_state), CurrentRetryStats,
                                      tokens_turn, tokens_base))
  /\ GetRetryStats(FALSE)
  /\ UNCHANGED <<configVars, RUNNING_TOKENS, history, pc, turn_start, tokens_base,
                 tokens_turn, states, synth_state, result, task, synth_input, now,
                 user_inputs, service, turn, calls, cause, remote, synth_calls, trace, sleeps, answer>>

\* The loop ends: the last dashboard, the running totals, the optional trace
\* (written or not) and the return
FinishTurn ==
  /\ pc = "poll_synth"
  /\ TaskDone(task[SynthTask])
  /\ live' = LiveUpdate(live, Forward(states, Some(synth_state), CurrentRetryStats,
                                      tokens_turn, tokens_base))
  /\ GetRetryStats(FALSE)
  /\ RUNNING_TOKENS' = MergeRunning(RUNNING_TOKENS, tokens_turn)
  /\ \E written \in BOOLEAN :
       /\ trace' = IF ~LOG_ALL_TO_FILE THEN "off"
                   ELSE IF written THEN "written" ELSE "failed"
       /\ pc' = IF LOG_ALL_TO_FILE THEN AfterTrace(written) ELSE "returned"
  /\ result' = IF pc' = "returned" THEN Some(ReturnValue(synth_state)) ELSE None
  /\ UNCHANGED <<configVars, history, turn_start, tokens_base, tokens_turn,
                 states, synth_state, task, synth_input, now, user_inputs, service, turn, calls,
                 cause, remote, synth_calls, sleeps, answer>>

\* Time passes
Tick ==
  /\ now < MaxTime
  /\ now' = now + 1
  /\ UNCHANGED <<configVars, RUNNING_TOKENS, retryVars, history, frameVars, task,
                 synth_input, user_inputs, service, turn, calls, cause, remote, synth_calls, trace, sleeps, answer>>

\* The variables that no settings operation touches
turnVars == <<RUNNING_TOKENS, retryVars, history, frameVars, task, synth_input, now,
              user_inputs, service, turn, calls, sleeps, cause, answer, remote,
              synth_calls, trace>>

CurrentSettings ==
  [LOG_ALL_TO_FILE |-> LOG_ALL_TO_FILE, N_WORKERS |-> N_WORKERS, RETRY_MAX |-> RETRY_MAX,
   RETRY_DELAY_SEC |-> RETRY_DELAY_SEC]

\* load_settings with a settings.json that holds a dict: _validate_settings,
\* then _apply_settings
LoadSettings ==
  /\ pc = "idle"
  /\ \E n, rmax, rdelay \in SettingValues, log \in {None, Some(TRUE), Some(FALSE)} :
       LET valid == ValidateSettings([LOG_ALL_TO_FILE |-> log, N_WORKERS |-> n,
                                      RETRY_MAX |-> rmax, RETRY_DELAY_SEC |-> rdelay],
                                     CurrentSettings)
       IN  /\ LOG_ALL_TO_FILE' = valid.LOG_ALL_TO_FILE
           /\ N_WORKERS' = valid.N_WORKERS
           /\ RETRY_MAX' = valid.RETRY_MAX
           /\ RETRY_DELAY_SEC' = valid.RETRY_DELAY_SEC
           /\ WORKER_NAMES' = WorkerNames(valid.N_WORKERS)
  /\ UNCHANGED turnVars

\* load_settings with no settings.json, or one that cannot be read as a dict:
\* nothing is applied
LoadSettingsFails ==
  /\ pc = "idle"
  /\ UNCHANGED <<configVars, turnVars>>

\* settings_menu, choice "n": the number of workers
MenuSetWorkers ==
  /\ pc = "idle"
  /\ \E line \in MenuLines :
       LET new_n == IntOf(line, 0)
       IN  IF new_n.ok /\ InMenuRange(new_n.val)
           THEN /\ N_WORKERS' = new_n.val
                /\ WORKER_NAMES' = WorkerNames(new_n.val)
           ELSE UNCHANGED <<N_WORKERS, WORKER_NAMES>>
  /\ UNCHANGED <<RETRY_MAX, RETRY_DELAY_SEC, LOG_ALL_TO_FILE, turnVars>>

\* settings_menu, choice "t": the logging switch
MenuToggleLogging ==
  /\ pc = "idle"
  /\ LOG_ALL_TO_FILE' = ~LOG_ALL_TO_FILE
  /\ UNCHANGED <<N_WORKERS, WORKER_NAMES, RETRY_MAX, RETRY_DELAY_SEC, turnVars>>

\* The settings operations, before a turn
NextSettings ==
  \/ LoadSettings
  \/ LoadSettingsFails
  \/ MenuSetWorkers
  \/ MenuToggleLogging

SpecSettings == InitSettings /\ [][NextSettings]_vars

\* The settings operations, and then the start of a turn
NextSettingsTurn ==
  \/ NextSettings
  \/ StartTurn

SpecSettingsTurn == InitSettingsTurn /\ [][NextSettingsTurn]_vars

\* The steps of the program
Next ==
  \/ StartTurn
  \/ \E i \in Workers : WorkerBegin(i)
  \/ \E i \in Workers : WorkerCallSucceeds(i)
  \/ \E i \in Workers : WorkerCallFails(i)
  \/ \E t \in Tasks : Wake(t)
  \/ PollWorkers
  \/ JoinWorkers
  \/ SynthBegin
  \/ SynthCallSucceeds
  \/ SynthCallFails
  \/ PollSynth
  \/ FinishTurn

Spec == Init /\ [][Next]_vars

SpecRetry == InitRetry /\ [][Next]_vars

\* The steps of the program while the clock runs
NextTimed == Next \/ Tick

SpecTurns == InitTurns /\ [][NextTimed]_vars

SpecStall == InitStall /\ [][Next]_vars

SpecUsage == InitUsage /\ [][Next]_vars

\* The event loop runs a task that can take a step, and the coordinator when
\* its sleep is over
SpecStallFair == InitStall /\ [][Next]_vars /\ WF_vars(Next)

\* ----------------------------------------------------------------- claims
Terminal(st) == st.ok \in {"True", "False"}

\* The drafts message that call_synth appended to its input
Drafts == synth_input[Len(synth_input)].content

Succeeded == {i \in DOMAIN states : states[i].ok = "True"}

\* C1: when run_turn returns, every one of the N worker task states and the
\* synthesizer task state is terminal (succeeded or failed, none pending).
C1_AllTerminalAtReturn ==
  pc = "returned" =>
    /\ Len(states) = N_WORKERS
    /\ \A i \in Workers : Terminal(states[i])
    /\ Terminal(synth_state)

C1_Witness ==
  /\ pc = "returned" /\ N_WORKERS > 1
  /\ \E i, j \in Workers : states[i].ok = "False" /\ states[j].ok = "True"

\* C2: the retry-wrapped synthesis call is started at most once in a turn,
\* exactly once by the time run_turn returns, and never while a worker is
\* still pending or its task unfinished.
C2_SynthesisOnceAfterJoin ==
  /\ synth_calls <= 1
  /\ (task[SynthTask].pc # "absent" \/ synth_calls > 0 \/ calls[SynthTask] > 0) =>
       /\ pc \in {"poll_synth", "returned"}
       /\ \A i \in Workers : Terminal(states[i]) /\ task[i].pc = "done"
  /\ pc = "returned" => synth_calls = 1

C2_Witness ==
  /\ synth_calls = 1 /\ task[SynthTask].pc = "inflight" /\ N_WORKERS > 1
  /\ \E i \in Workers : states[i].ok = "False" /\ calls[i] > 1

\* C3: the step in which a worker fails changes no other worker's task state
\* or task, nor the coordinator's position or the synthesizer's state; and a
\* worker whose remote call succeeded has outcome succeeded, whichever other
\* workers failed.
C3_WorkerFailureIsLocal ==
  [][/\ \A i \in DOMAIN states :
          (i \in DOMAIN states' /\ states[i].ok = "None" /\ states'[i].ok = "False") =>
            /\ \A j \in DOMAIN states \ {i} : states'[j] = states[j] /\ task'[j] = task[j]
            /\ task'[SynthTask] = task[SynthTask]
            /\ pc' = pc /\ synth_state' = synth_state
     /\ \A i \in DOMAIN states' : remote'[i] = "ok" => states'[i].ok = "True"]_vars

C3_Witness ==
  /\ pc = "returned" /\ synth_state.ok = "True"
  /\ \E i, j \in Workers :
       /\ i < j /\ states[i].ok = "False" /\ remote[j] = "ok" /\ states[j].ok = "True"

\* C4 as stated: the drafts passed to the synthesis have one entry for each
\* succeeded worker and no entry for a failed worker.
C4_DraftsOfSucceededOnly ==
  synth_calls > 0 =>
    /\ Len(Drafts) = Cardinality(Succeeded)
    /\ {Drafts[k].name : k \in 1..Len(Drafts)} = {states[i].name : i \in Succeeded}

\* C4, amended: the drafts passed to the synthesis have one entry per worker,
\* in worker order and under the worker's name; a succeeded worker's entry
\* holds its output text, stripped, and a failed worker's entry the empty text.
C4_DraftsOfAllWorkers ==
  synth_calls > 0 =>
    /\ Len(Drafts) = N_WORKERS
    /\ \A i \in Workers :
         /\ Drafts[i].name = WorkerName(i)
         /\ Drafts[i].text = IF states[i].ok = "True"
                             THEN Strip(Get(states[i].output_text))
                             ELSE EmptyText

C4_Witness ==
  /\ synth_calls > 0
  /\ \E i, j \in Workers :
       /\ states[i].ok = "False" /\ Drafts[i].text = EmptyText
       /\ states[j].ok = "True" /\ Drafts[j].text # EmptyText
       /\ Drafts[j].text # Get(states[j].output_text)

\* C5: when the synthesis call failed on every allowed attempt, the
\* synthesizer state is failed with an error detail, and run_turn returns the
\* empty string and does not raise.
C5_SynthesisFailureGivesEmptyAnswer ==
  remote[SynthTask] = "fail" =>
    /\ calls[SynthTask] = RETRY_MAX
    /\ synth_state.ok = "False" /\ ~IsNone(synth_state.error)
    /\ pc # "raised"
    /\ pc = "returned" => result = Some(EmptyText)

C5_Witness ==
  /\ pc = "returned" /\ remote[SynthTask] = "fail" /\ calls[SynthTask] > 1
  /\ \E i \in Workers : states[i].ok = "True"

\* C6 as stated: the returned answer is empty if and only if the synthesizer
\* state ended failed.
C6_EmptyIffSynthesisFailed ==
  pc = "returned" =>
    /\ Terminal(synth_state)
    /\ (Get(result) = EmptyText) <=> (synth_state.ok = "False")

\* C7: run_turn never raises; it returns a string whatever failed, the trace
\* included, and when every remote call failed it returns the empty string
\* with every task state failed.
C7_NoFailureIsFatal ==
  /\ pc # "raised"
  /\ pc = "returned" => ~IsNone(result)
  /\ (pc = "returned" /\ \A t \in Tasks : remote[t] = "fail") =>
       /\ result = Some(EmptyText)
       /\ \A i \in Workers : states[i].ok = "False"
       /\ synth_state.ok = "False"

C7_Witness ==
  /\ pc = "returned" /\ trace = "failed" /\ N_WORKERS > 1
  /\ \A t \in Tasks : remote[t] = "fail"

\* The retry-after header of a failure, and the phrases the pattern matches
RetryAfterHeader(e) ==
  IF IsNone(e.response) THEN AbsentHeader ELSE Get(e.response)["retry-after"]

HasSecondsHint(e) ==
  /\ e.message.phrase \in {"try again in", "Try Again In"}
  /\ e.message.unit = "s"
  /\ ~IsNone(e.message.secs)

Sleeping == {t \in Tasks : task[t].pc = "sleeping"}

\* C8: the delay of every backoff sleep is at least the base delay, at least
\* the numeric retry-after header of the failure that caused it, and at least
\* the seconds value in that failure's message.
C8_DelayAtLeastBaseAndHints ==
  \A t \in Sleeping :
    LET e == Get(cause[t])
        d == task[t].delay
    IN  /\ d >= RETRY_DELAY_SEC
        /\ RetryAfterHeader(e).kind = "num" => d >= RetryAfterHeader(e).val
        /\ HasSecondsHint(e) => d >= Get(e.message.secs)

C8_Witness ==
  \E t \in Sleeping :
    /\ RETRY_DELAY_SEC = 50 /\ HasSecondsHint(Get(cause[t]))
    /\ Get(cause[t]).message.secs = Some(124) /\ task[t].delay = 130

MaxOf(S) == CHOOSE x \in S : \A y \in S : y <= x

\* The next whole second, in tenths
WholeSecond(x) == CHOOSE c \in {10 * k : k \in 0..100} : c >= x /\ c < x + 10

\* The base delay and the hints a failure carries
DelayCandidates(e) ==
  {RETRY_DELAY_SEC}
    \cup (IF RetryAfterHeader(e).kind = "num" THEN {RetryAfterHeader(e).val} ELSE {})
    \cup (IF HasSecondsHint(e) THEN {WholeSecond(Get(e.message.secs))} ELSE {})

Clamp(x, lo, hi) == IF x < lo THEN lo ELSE IF x > hi THEN hi ELSE x

\* C9 as stated: the delay of a backoff sleep is the largest of the base delay
\* and the hints, clamped between the delay floor and the delay ceiling.
C9_DelayIsClamped ==
  \A t \in Sleeping :
    task[t].delay = Clamp(MaxOf(DelayCandidates(Get(cause[t]))), DelayFloor, DelayCeiling)

\* C9, amended: the delay of a backoff sleep is the largest of the base delay,
\* the numeric retry-after header and the message's seconds rounded up to a
\* whole second, with no clamp; it is never below the base delay.
C9_DelayIsLargestCandidate ==
  \A t \in Sleeping :
    /\ task[t].delay = MaxOf(DelayCandidates(Get(cause[t])))
    /\ task[t].delay >= RETRY_DELAY_SEC

C9_Witness ==
  \E t \in Sleeping : task[t].delay > DelayCeiling /\ RETRY_DELAY_SEC <= DelayCeiling

\* C10: with RETRY_MAX = 1 every retried call invokes the remote call at most
\* once, exactly once when it is done, never sleeps, and the retry telemetry
\* stays at zero.
C10_OneAttemptNoRetry ==
  RETRY_MAX = 1 =>
    /\ RETRY_COUNT = 0 /\ RETRY_EVENTS = 0 /\ RETRY_DELAYS = <<>>
    /\ \A t \in Tasks :
         /\ calls[t] <= 1
         /\ task[t].pc # "sleeping"
         /\ task[t].pc \in {"inflight", "done"} => calls[t] = 1

C10_Witness ==
  /\ RETRY_MAX = 1 /\ pc = "returned" /\ remote[SynthTask] = "fail"
  /\ \E i, j \in Workers : remote[i] = "fail" /\ remote[j] = "ok"

RECURSIVE SumOver(_, _)
\* The sum of f over the set S
SumOver(f, S) ==
  IF S = {} THEN 0
  ELSE LET x == CHOOSE y \in S : TRUE IN f[x] + SumOver(f, S \ {x})

Range(q) == {q[k] : k \in 1..Len(q)}

\* The task state that task t owns
StateOf(t) == IF t = SynthTask THEN synth_state ELSE states[t]

\* C11: one invocation of the retry wrapper calls the remote call at most
\* RETRY_MAX times; a call that succeeded was the last one made and every call
\* before it failed and slept (calls = sleeps + 1), and its result is the
\* output of the task; when every attempt failed there were exactly RETRY_MAX
\* calls and RETRY_MAX - 1 sleeps, the task is over (no sleep follows the
\* final attempt) and the error of its task state is the message of the
\* final failure.
C11_BoundedAttempts ==
  \A t \in Tasks :
    /\ calls[t] <= RETRY_MAX
    /\ calls[t] = task[t].attempt
    /\ remote[t] = "ok" =>
         /\ task[t].pc = "done" /\ calls[t] = sleeps[t] + 1
         /\ StateOf(t).ok = "True"
         /\ StateOf(t).output_text = Some(ExtractOutputText(Get(answer[t])))
    /\ remote[t] = "fail" =>
         /\ task[t].pc = "done"
         /\ calls[t] = RETRY_MAX /\ sleeps[t] = RETRY_MAX - 1
         /\ StateOf(t).ok = "False"
         /\ StateOf(t).error = Some(Get(cause[t]).message)

C11_Witness ==
  /\ pc = "returned" /\ RETRY_MAX = 2
  /\ remote[1] = "fail" /\ calls[1] = 2 /\ sleeps[1] = 1
  /\ Get(cause[1]).message.secs = Some(124)
  /\ remote[SynthTask] = "ok" /\ calls[SynthTask] = 2 /\ sleeps[SynthTask] = 1

\* The retries a task has made: its calls after the first, and the one it is
\* sleeping for
RetriesOf(t) ==
  IF calls[t] = 0 THEN 0
  ELSE calls[t] - 1 + (IF task[t].pc = "sleeping" THEN 1 ELSE 0)

\* C12: at every point of a turn the shared retry counter equals the number
\* of backoff sleeps started so far in the turn and the number of recorded
\* delays, whichever way the workers' failures interleave; a call's first
\* attempt counts for nothing, and the delay of every task that is sleeping
\* is among the recorded ones.
C12_RetryCounterExact ==
  /\ RETRY_COUNT = SumOver(sleeps, Tasks)
  /\ RETRY_COUNT = Len(RETRY_DELAYS)
  /\ RETRY_COUNT = SumOver([t \in Tasks |-> RetriesOf(t)], Tasks)
  /\ \A t \in Tasks : task[t].pc = "sleeping" => task[t].delay \in Range(RETRY_DELAYS)

C12_Witness ==
  /\ RETRY_COUNT = 2 /\ Len(RETRY_DELAYS) = 2
  /\ \E i, j \in Workers :
       /\ i # j /\ task[i].pc = "sleeping" /\ task[j].pc = "sleeping"
       /\ \E k \in Workers \ {i, j} : calls[k] = 1

\* The usage extracted from the response of task t's call, if it succeeded
UsageOf(t) == IF remote[t] = "ok" THEN ExtractUsage(Get(answer[t])) ELSE ZeroTokens

\* The usage of the calls that succeeded, summed field by field
SucceededUsage ==
  [input  |-> SumOver([t \in Tasks |-> UsageOf(t).input], Tasks),
   output |-> SumOver([t \in Tasks |-> UsageOf(t).output], Tasks),
   total  |-> SumOver([t \in Tasks |-> UsageOf(t).total], Tasks)]

\* C13: the per-turn token totals equal, field by field, the sum of the usage
\* of exactly the calls that succeeded in the turn (workers and synthesis),
\* at every point of the turn and so when run_turn returns; a failed call and
\* the failed attempts of a call that succeeded add nothing.
C13_TurnTokensAreSucceededUsage ==
  /\ tokens_turn = SucceededUsage
  /\ \A i \in DOMAIN states :
       states[i].ok = "True" => states[i].tokens = Some(UsageOf(i))

C13_Witness ==
  /\ pc = "returned" /\ remote[SynthTask] = "ok" /\ calls[SynthTask] = 2
  /\ tokens_turn.total > 5
  /\ \E i, j \in Workers :
       /\ remote[i] = "fail"
       /\ remote[j] = "ok" /\ calls[j] = 2 /\ UsageOf(j).total > 0

Plus(a, b) ==
  [input |-> a.input + b.input, output |-> a.output + b.output, total |-> a.total + b.total]

\* The step in which run_turn returns
Returns == pc = "poll_synth" /\ pc' = "returned"

\* C14: the step in which a turn returns adds that turn's totals to the
\* running totals, field by field, and they are then the baseline taken at
\* the turn's start plus the turn's totals; no other step changes the running
\* totals, so that after k turns they are the initial totals plus the k
\* turns' totals.
C14_RunningTotalsAddUp ==
  [][IF Returns
     THEN /\ RUNNING_TOKENS' = Plus(RUNNING_TOKENS, tokens_turn)
          /\ RUNNING_TOKENS' = Plus(tokens_base', tokens_turn')
     ELSE RUNNING_TOKENS' = RUNNING_TOKENS]_vars

C14_Witness ==
  /\ turn = 2 /\ pc = "returned"
  /\ tokens_base.total > 0 /\ tokens_turn.total > 0
  /\ RUNNING_TOKENS.total = tokens_base.total + tokens_turn.total

\* The task states of the turn in progress
TaskStates == {states[i] : i \in DOMAIN states} \cup {synth_state}

\* C15: in every state of a turn, each task state has its end timestamp set
\* exactly when its outcome is not pending, and an end timestamp is never
\* before the start timestamp.
C15_EndedIffTerminal ==
  \A st \in TaskStates :
    /\ ~IsNone(st.ended_at) <=> Terminal(st)
    /\ ~IsNone(st.ended_at) => Get(st.ended_at) >= st.started_at

C15_Witness ==
  /\ pc = "poll_synth" /\ task[SynthTask].pc = "inflight"
  /\ states[1].ok = "False" /\ states[1].started_at = 0 /\ states[1].ended_at = Some(1)
  /\ synth_state.ok = "None" /\ synth_state.ended_at = None /\ synth_state.started_at = 1

\* C16: within a turn no step changes an outcome that is succeeded or failed:
\* the outcome of a task state changes at most once, from pending.
C16_OutcomeSingleShot ==
  [][turn' = turn =>
       /\ \A i \in DOMAIN states : Terminal(states[i]) => states'[i].ok = states[i].ok
       /\ Terminal(synth_state) => synth_state'.ok = synth_state.ok]_vars

C16_Witness ==
  /\ pc = "returned" /\ synth_state.ok = "True"
  /\ \E i, j \in Workers : i < j /\ states[i].ok = "True" /\ states[j].ok = "False"

\* C17 as stated: at the end of a turn every task state holds an error detail
\* exactly when it failed and an output payload exactly when it succeeded.
C17_ErrorIffFailedOutputIffSucceeded ==
  pc = "returned" =>
    \A st \in TaskStates :
      /\ ~IsNone(st.error) <=> st.ok = "False"
      /\ ~IsNone(st.output_text) <=> st.ok = "True"

\* C17, amended: at the end of a turn every task state holds an error detail
\* exactly when it failed; a worker's state holds an output payload exactly
\* when it succeeded; the synthesizer's state always holds one, and it is the
\* empty string when the synthesis failed.
C17_ErrorIffFailedSynthHoldsEmpty ==
  pc = "returned" =>
    /\ \A st \in TaskStates : ~IsNone(st.error) <=> st.ok = "False"
    /\ \A i \in DOMAIN states : ~IsNone(states[i].output_text) <=> states[i].ok = "True"
    /\ ~IsNone(synth_state.output_text)
    /\ synth_state.ok = "False" => synth_state.output_text = Some(EmptyText)

C17_Witness ==
  /\ pc = "returned"
  /\ synth_state.ok = "False" /\ synth_state.output_text = Some(EmptyText)
  /\ \E i, j \in Workers :
       /\ states[i].ok = "False" /\ states[i].output_text = None
       /\ states[j].ok = "True" /\ states[j].error = None

\* Task t moves: every step of a task changes its position
Moves(t) == task'[t] # task[t]

\* A step of the task of worker i
WorkerStep(i) ==
  /\ Moves(i)
  /\ WorkerBegin(i) \/ WorkerCallSucceeds(i) \/ WorkerCallFails(i) \/ Wake(i)

\* A step of the synth task
SynthStep ==
  /\ Moves(SynthTask)
  /\ SynthBegin \/ SynthCallSucceeds \/ SynthCallFails \/ Wake(SynthTask)

\* A step of the coordinator and its live monitor, within a turn
CoordinatorStep == PollWorkers \/ JoinWorkers \/ PollSynth \/ FinishTurn

\* C18: a step of worker i's task changes no field of another worker's state
\* or of the synthesizer's; a step of the synth task or of the coordinator
\* and its monitor changes no field of a worker's state; the coordinator's one
\* write to the synthesizer's state is its start time, before the synth task
\* exists; and within a turn no field of a terminal task state changes.
C18_SingleWriter ==
  [][/\ \A i \in DOMAIN states :
          WorkerStep(i) =>
            /\ \A j \in DOMAIN states \ {i} : states'[j] = states[j]
            /\ synth_state' = synth_state
     /\ SynthStep => states' = states
     /\ CoordinatorStep =>
          /\ states' = states
          /\ synth_state' = [synth_state EXCEPT !.started_at = synth_state'.started_at]
          /\ synth_state' # synth_state => task[SynthTask].pc = "absent"
     /\ turn' = turn =>
          /\ \A i \in DOMAIN states : Terminal(states[i]) => states'[i] = states[i]
          /\ Terminal(synth_state) => synth_state' = synth_state]_vars

C18_Witness ==
  /\ pc = "returned" /\ N_WORKERS > 1 /\ synth_state.ok = "False"
  /\ states[1].ok = "False" /\ states[2].ok = "True" /\ calls[2] = 2

\* A step that computes a dashboard snapshot inside a polling loop
SnapshotStep == PollWorkers \/ PollSynth

\* C19: a step that computes a dashboard snapshot leaves the task states, the
\* tasks, the per-turn token accumulators, the running-total baseline, the
\* running totals and the retry telemetry as they were; and the snapshot of a
\* polling loop is never held up: it can be taken in every state in which its
\* loop is running, whatever the tasks are doing.
C19_SnapshotReadsOnly ==
  /\ [][/\ SnapshotStep =>
             UNCHANGED <<states, synth_state, task, tokens_turn, tokens_base,
                         RUNNING_TOKENS, RETRY_COUNT, RETRY_EVENTS, RETRY_DELAYS>>
        /\ (JoinWorkers \/ FinishTurn) =>
             UNCHANGED <<states, tokens_turn, tokens_base, RETRY_COUNT, RETRY_EVENTS,
                         RETRY_DELAYS>>]_vars
  /\ [](/\ (pc = "poll_workers" /\ AnyPending(states)) => ENABLED PollWorkers
        /\ (pc = "poll_synth" /\ ~TaskDone(task[SynthTask])) => ENABLED PollSynth)

C19_Witness ==
  /\ pc = "poll_workers" /\ RETRY_COUNT = 2
  /\ Get(live).retries_total = 2 /\ Get(live).workers_run = 2
  /\ tokens_turn.total > 0
  /\ \E i \in Workers : task[i].pc = "sleeping"

\* The snapshot of the current task states and telemetry
SnapshotNow == Forward(states, Some(synth_state), CurrentRetryStats, tokens_turn, tokens_base)

\* C20: while a worker or the synthesizer is pending the monitor is in one of
\* its polling loops and can forward a snapshot, and it cannot return; when
\* run_turn has returned, the snapshot forwarded last is the one of the final
\* task states: no worker running and a terminal synthesizer.
C20_LastSnapshotAfterAllTerminal ==
  /\ (turn > 0 /\ \E st \in TaskStates : ~Terminal(st)) =>
       /\ pc \in {"poll_workers", "poll_synth"}
       /\ pc = "poll_workers" /\ AnyPending(states) => ENABLED PollWorkers
       /\ pc = "poll_synth" /\ task[SynthTask].pc # "absent" => ENABLED PollSynth
       /\ ~ENABLED FinishTurn
  /\ pc = "returned" =>
       /\ live = SnapshotNow
       /\ Get(live).workers_run = 0
       /\ Get(live).synth \in {Some("True"), Some("False")}

C20_Witness ==
  /\ pc = "returned" /\ N_WORKERS > 1
  /\ Get(live).workers_err > 0 /\ Get(live).workers_done > 0
  /\ Get(live).synth = Some("False") /\ Get(live).retries_total > 1

\* The call that task t is waiting for is one that never resolves
StalledNow(t) == task[t].pc = "inflight" /\ ~Resolves(t)

\* C21: while a worker waits for a remote call that never resolves, the
\* worker is pending with no end time, the coordinator is in its first loop,
\* no synth task and no synthesis call exist and run_turn has not returned;
\* and no step ends the wait, whatever the other workers have reached.
C21_StalledWorkerStallsTurn ==
  /\ [](\A i \in Workers :
          StalledNow(i) =>
            /\ states[i].ok = "None" /\ IsNone(states[i].ended_at)
            /\ pc = "poll_workers" /\ result = None
            /\ task[SynthTask].pc = "absent" /\ synth_calls = 0 /\ calls[SynthTask] = 0)
  /\ [][\A i \in Workers : StalledNow(i) => StalledNow(i)']_vars

C21_Witness ==
  /\ StalledNow(2) /\ task[2].attempt = 2
  /\ states[1].ok = "False" /\ calls[1] = RETRY_MAX /\ task[1].pc = "done"
  /\ pc = "poll_workers" /\ Get(live).workers_err = 1

\* The calls of the turn that have retried at least once
RetriedCalls == {t \in Tasks : sleeps[t] > 0}

\* C26: the retry-events counter is the number of calls of the turn that
\* have retried at least once, each counted once however many retries it
\* made: it is at most the total of retries and at most the number of calls
\* started in the turn.
C26_RetryEventsCountCalls ==
  /\ RETRY_EVENTS = Cardinality(RetriedCalls)
  /\ RETRY_EVENTS <= RETRY_COUNT
  /\ RETRY_EVENTS <= Cardinality({t \in Tasks : calls[t] > 0})

C26_Witness ==
  /\ pc = "returned" /\ RETRY_EVENTS = 2 /\ RETRY_COUNT = 4
  /\ sleeps[1] = 2 /\ sleeps[2] = 0 /\ sleeps[SynthTask] = 2

\* C27: in a turn in which every attempt of every remote call resolves,
\* run_turn eventually returns.
C27_TurnReturns == (turn > 0 /\ service.stalled = {}) ~> (pc = "returned")

C27_Witness ==
  /\ pc = "returned" /\ service.stalled = {} /\ RETRY_MAX = 3
  /\ remote[1] = "fail" /\ calls[1] = 3
  /\ remote[2] = "ok" /\ calls[2] = 2
  /\ remote[SynthTask] = "fail" /\ calls[SynthTask] = 3

\* The usage of the workers that succeeded, summed field by field
WorkersUsage ==
  [input  |-> SumOver([t \in Tasks |-> UsageOf(t).input], Workers),
   output |-> SumOver([t \in Tasks |-> UsageOf(t).output], Workers),
   total  |-> SumOver([t \in Tasks |-> UsageOf(t).total], Workers)]

\* C28: once the synth task exists every worker task has run to its end:
\* every worker has an end time, and until the synthesis call succeeds the
\* per-turn token totals are the usage of all succeeded workers, which a
\* snapshot then shows; a snapshot that shows the synthesizer shows no worker
\* running.
C28_WorkersCompleteBeforeSynthesis ==
  /\ task[SynthTask].pc # "absent" =>
       /\ \A i \in Workers : task[i].pc = "done" /\ ~IsNone(states[i].ended_at)
       /\ remote[SynthTask] # "ok" =>
            /\ tokens_turn = WorkersUsage
            /\ ComputeStats(states, Some(synth_state), CurrentRetryStats, tokens_turn,
                            tokens_base).tokens_total = WorkersUsage.total
  /\ (~IsNone(live) /\ ~IsNone(Get(live).synth)) =>
       /\ Get(live).workers_run = 0
       /\ task[SynthTask].pc # "absent"

C28_Witness ==
  /\ pc = "poll_synth" /\ task[SynthTask].pc = "created"
  /\ Get(live).synth = Some("None") /\ Get(live).workers_done = 2
  /\ tokens_turn.total = 10 /\ calls[2] = 2

\* C30: when every worker failed, run_turn still starts the synthesis call,
\* once, with an empty draft for each worker, and returns what that call
\* yields: its text when it succeeds and the empty string when it fails.
C30_SynthesisWithoutDrafts ==
  (turn > 0 /\ \A i \in Workers : states[i].ok = "False") =>
    /\ pc \in {"poll_workers", "poll_synth", "returned"}
    /\ pc = "returned" =>
         /\ synth_calls = 1 /\ calls[SynthTask] >= 1
         /\ \A k \in 1..Len(Drafts) : Drafts[k].text = EmptyText
         /\ result = IF remote[SynthTask] = "ok"
                     THEN Some(ExtractOutputText(Get(answer[SynthTask])))
                     ELSE Some(EmptyText)

C30_Witness ==
  /\ pc = "returned" /\ RETRY_MAX = 2
  /\ \A i \in Workers : states[i].ok = "False" /\ calls[i] = 2
  /\ remote[SynthTask] = "ok" /\ result = Some(<<"B">>)

\* A count of a usage object, a missing one read as zero
CountOrZero(c) == IF IsNone(c) THEN 0 ELSE Get(c)

\* The counts of a usage object: each missing field zero, and a missing total
\* the sum of input and output
CountsOf(usage) ==
  [input  |-> CountOrZero(usage.input_tokens),
   output |-> CountOrZero(usage.output_tokens),
   total  |-> IF IsNone(usage.total_tokens)
              THEN CountOrZero(usage.input_tokens) + CountOrZero(usage.output_tokens)
              ELSE Get(usage.total_tokens)]

\* C22 as stated: the usage recorded for a worker that succeeded is the counts
\* of its response's usage object, each missing field read as zero and a
\* missing total as input + output; a count that is present is never replaced
\* by zero.
C22_UsageExtractedFieldByField ==
  \A i \in DOMAIN states :
    states[i].ok = "True" =>
      LET usage == Get(answer[i]).usage
          got   == Get(states[i].tokens)
      IN  /\ got = CountsOf(usage)
          /\ ~IsNone(usage.input_tokens) => got.input = Get(usage.input_tokens)

\* C23: a seconds value that the pattern finds in a failure's message, in
\* whatever case the phrase is written, is rounded up to a whole second
\* before it is used: the delay is at least that whole second, and 12.4 s in
\* the message with a base delay of 5 s gives a delay of at least 13 s.
C23_TextHintRoundedUp ==
  \A t \in Sleeping :
    LET m == Get(cause[t]).message
    IN  (m.phrase \in {"try again in", "Try Again In"} /\ m.unit = "s" /\ ~IsNone(m.secs)) =>
          /\ task[t].delay >= WholeSecond(Get(m.secs))
          /\ (Get(m.secs) = 124 /\ RETRY_DELAY_SEC = 50) => task[t].delay >= 130

C23_Witness ==
  /\ RETRY_DELAY_SEC = 10 /\ turn > 0 /\ task[SynthTask].pc = "sleeping"
  /\ cause[SynthTask] # None /\ cause[1] # None
  /\ Get(cause[SynthTask]).message.phrase = "Try Again In"
  /\ task[SynthTask].delay = 20
  /\ Get(cause[1]).message.secs = Some(124)
  /\ Len(RETRY_DELAYS) = 2 /\ RETRY_DELAYS[1] = 130

\* A failure without a hint the wrapper can use: no retry-after value, or one
\* that is empty or not a number, and no seconds in the message
NoUsableHint(e) ==
  /\ RetryAfterHeader(e).kind \in {"absent", "empty", "text"}
  /\ ~HasSecondsHint(e)

\* C24: a failure whose hints are absent or cannot be parsed makes the
\* wrapper sleep exactly the base delay when it retries, and raise nothing of
\* its own: after the last attempt the recorded error is the message of the
\* failure itself.
C24_NoHintGivesBaseDelay ==
  \A t \in Tasks :
    (~IsNone(cause[t]) /\ NoUsableHint(Get(cause[t]))) =>
      /\ task[t].pc = "sleeping" => task[t].delay = RETRY_DELAY_SEC
      /\ task[t].pc # "absent" /\ pc # "raised"
      /\ remote[t] = "fail" => StateOf(t).error = Some(Get(cause[t]).message)

C24_Witness ==
  /\ task[SynthTask].pc = "sleeping" /\ task[SynthTask].delay = RETRY_DELAY_SEC
  /\ RetryAfterHeader(Get(cause[SynthTask])).kind = "text"
  /\ ~HasSecondsHint(Get(cause[SynthTask]))
  /\ remote[1] = "fail" /\ Get(cause[1]).message.phrase = "try again in"
  /\ IsNone(Get(cause[1]).message.secs)

\* C25: after any settings loads and menu operations, whatever the values
\* given, the worker count is within 1..8, the retry max attempts within
\* 1..10 and the base delay within 1..60 seconds (10..600 tenths), and there
\* is one worker name per worker.
C25_SettingsWithinBounds ==
  /\ N_WORKERS \in 1..8
  /\ RETRY_MAX \in 1..10
  /\ RETRY_DELAY_SEC \in 10..600
  /\ Len(WORKER_NAMES) = N_WORKERS

C25_Witness ==
  /\ N_WORKERS = 8 /\ RETRY_MAX = 1 /\ RETRY_DELAY_SEC = 600 /\ LOG_ALL_TO_FILE

\* C29: in every turn of a sequence of turns the retry counters count the
\* backoff sleeps and the retried calls of that turn alone, and so does every
\* snapshot; the step that starts a turn sets the counters to zero before any
\* worker has begun.
C29_RetryTelemetryPerTurn ==
  /\ [](turn > 0 =>
          /\ RETRY_COUNT = SumOver(sleeps, Tasks)
          /\ RETRY_COUNT = Len(RETRY_DELAYS)
          /\ RETRY_EVENTS = Cardinality(RetriedCalls)
          /\ Get(live).retries_total <= RETRY_COUNT
          /\ ComputeStats(states, None, CurrentRetryStats, tokens_turn,
                          tokens_base).retry_events = Cardinality(RetriedCalls))
  /\ [][turn' # turn =>
          /\ RETRY_COUNT' = 0 /\ RETRY_EVENTS' = 0 /\ RETRY_DELAYS' = <<>>
          /\ Get(live').retries_total = 0
          /\ \A t \in Tasks : calls'[t] = 0 /\ task'[t].pc \in {"absent", "created"}]_vars

C29_Witness ==
  /\ turn = 2 /\ RUNNING_TOKENS.total > 0
  /\ RETRY_COUNT = 1 /\ RETRY_EVENTS = 1 /\ sleeps[1] = 1
  /\ Get(live).retries_total = 1

\* C31: run_turn leaves the caller's history as it was: no step of a turn
\* changes it, whatever the workers and the synthesis do, and the list given
\* to the synthesis call is another list, the history followed by one message
\* that holds the drafts.
C31_HistoryUnchanged ==
  /\ [](/\ Len(history) = 1 /\ history[1] = [role |-> "user", content |-> <<"q">>]
        /\ synth_input # <<>> =>
             /\ Len(synth_input) = Len(history) + 1
             /\ SubSeq(synth_input, 1, Len(history)) = history
             /\ synth_input[Len(synth_input)].role = "assistant"
             /\ synth_input # history)
  /\ [][history' = history]_vars

C31_Witness ==
  /\ pc = "returned" /\ Len(history) = 1 /\ Len(synth_input) = 2
  /\ states[1].ok = "True" /\ states[2].ok = "False"
  /\ remote[SynthTask] = "fail" /\ result = Some(EmptyText)

\* C32: after any settings loads and menu changes of the worker count there
\* is one role name per worker and no two names are equal, so a turn started
\* then has N task states, each with its own name, and a drafts map of them
\* has N entries.
C32_OneDistinctNamePerWorker ==
  /\ Len(WORKER_NAMES) = N_WORKERS
  /\ \A i, j \in 1..Len(WORKER_NAMES) : WORKER_NAMES[i] = WORKER_NAMES[j] => i = j
  /\ pc = "poll_workers" =>
       /\ Len(states) = N_WORKERS
       /\ \A i \in 1..N_WORKERS : states[i].name = WORKER_NAMES[i]
       /\ Len(DraftsMap(states)) = N_WORKERS

C32_Witness ==
  /\ pc = "poll_workers" /\ N_WORKERS = 8 /\ Len(states) = 8
  /\ states[8].name = WorkerName(8) /\ states[1].name # states[8].name

====
